---- MODULE Spec2Model ----
(***************************************************************************)
(* Model of tomodachi_testcontainers: the container lifecycle manager      *)
(* (DockerContainer in containers/common.py), its address resolution, and  *)
(* the probe engine (pytest/async_probes.py) exercised by the tests.       *)
(***************************************************************************)
EXTENDS Integers, Sequences, FiniteSets, TLC

(***************************************************************************)
(* Bounds of the model.                                                    *)
(***************************************************************************)
\* total number of engine run() calls made by all managers together
MaxStarts == 2
\* number of chunks a container may write to its log
MaxLog == 2
\* longest probe budget (stop_after), in clock ticks
MaxBudget == 9
\* longest probe interval (probe_interval), in clock ticks
MaxInterval == 3
\* longest time one invocation of a check takes, in clock ticks
MaxCheckTicks == 2
\* number of messages that enter the queue
MaxMessages == 3

(***************************************************************************)
(* Container lifecycle manager: state.                                     *)
(***************************************************************************)
Managers == {"m1", "m2"}

\* the concrete variants of DockerContainer the managers are instances of
Variants == {"Working", "Silent", "BrokenHook", "FailingHealthcheck"}

\* what the engine's run(detach=True) call can do: create and start the
\* container, fail before anything is created, or create the container and
\* then fail to start its process (exec: "foo": executable file not found)
RunOutcomes == {"ok", "create_fail", "start_fail"}

\* what the container's process has written by the time run() has returned and
\* start() goes on: nothing yet, a line of text, or bytes that are not UTF-8
EarlyOutput == {<<>>, <<"text">>, <<"bad">>}

\* a chunk of container output: text that is valid UTF-8, or bytes that are not
LogChunks == {"text", "bad"}

\* no container under this name in the engine
NoContainer == [id |-> 0, status |-> "absent", logs |-> <<>>, attached |-> FALSE]

NoArgs == [host |-> "", inside |-> FALSE, env |-> "unset"]

\* the record of the last operation called on a manager and how it ended
NoCall == [m |-> "none", op |-> "none", exc |-> "none", orig |-> "none",
           ret |-> "none", pre |-> 0, tr |-> <<>>, args |-> NoArgs]

VARIABLES
    engine,     \* engine[m]: the container named after manager m, in the engine
    nextId,     \* identity the engine gives the next container it is asked to run
    handle,     \* handle[m]: self._container, 0 for None
    variant,    \* variant[m]: the concrete class of manager m
    inScope,    \* inScope[m]: a with-block on m has been entered and not left
    ref,        \* ref[m]: "unborn" (not constructed), "held", "dropped"
                \* (unreachable), "collected" (__del__ ran)
    sink,       \* sink[m]: the lines manager m's logger has received
    last,       \* the last operation and its outcome
    pKind,      \* the probe called: "until" (probe_until) or "during"
                \* (probe_during_interval)
    pAsync,     \* TRUE when check is a coroutine function, FALSE when a plain one
    pPc,        \* the probe: "idle", "ready" (about to invoke check), "sleeping",
                \* "returned", "raised"
    pInterval,  \* probe_interval of the running probe, in ticks
    pStopAfter, \* stop_after of the running probe, in ticks
    pClock,     \* ticks elapsed since the probe was called
    pHist,      \* the invocations of check so far: outcome, time of the call (s)
                \* and time of its completion (t)
    pResult,    \* what the probe returned or raised
    iDockerfile, \* the builder's dockerfile argument
    iTarget,    \* the builder's target argument, "none" for None
    buildkit,   \* os.getenv("DOCKER_BUILDKIT"): "unset", "" or "1"
    images,     \* the images in the engine
    imageUsers, \* the images in the engine that a container has been created from
    image,      \* self.image of the builder, NoImage while it is not assigned
    iInScope,   \* a with-block on the builder has been entered and not left
    iLast,      \* the last operation called on the builder and how it ended
    sched,      \* who holds the single-threaded scheduler: "probe" while the
                \* probe coroutine runs, "idle" while no task does
    pWaits,     \* the suspensions of the probe that are over
    otherRan,   \* another task has run during the suspension the probe is in
    served,     \* the suspensions of the probe during which another task ran
    snsTopics,  \* the names of the topics in SNS
    sqsMade,    \* the queue exists in SQS
    sqsQueue,   \* the messages in the queue, oldest first: identity, and whether
                \* the envelope can parse the body
    snsSubs,    \* the subscriptions in SNS: <<topic ARN, queue ARN>>
    msgId,      \* identity of the next message to enter the queue
    sLast,      \* the last call on the SNS/SQS test client and how it ended
    twin        \* a second call of the same probe with the same arguments, on a
                \* check of the other kind (plain for coroutine, coroutine for
                \* plain) that does the same at each invocation

containerVars == <<engine, nextId, handle, variant, inScope, ref, sink, last>>

probeVars == <<pKind, pAsync, pPc, pInterval, pStopAfter, pClock, pHist, pResult, twin,
               sched, pWaits, otherRan, served>>

imageVars == <<iDockerfile, iTarget, buildkit, images, imageUsers, image, iInScope, iLast>>

snsVars == <<snsTopics, sqsMade, sqsQueue, snsSubs, msgId, sLast>>

vars == <<engine, nextId, handle, variant, inScope, ref, sink, last,
          pKind, pAsync, pPc, pInterval, pStopAfter, pClock, pHist, pResult, twin,
          sched, pWaits, otherRan, served,
          iDockerfile, iTarget, buildkit, images, imageUsers, image, iInScope, iLast,
          snsTopics, sqsMade, sqsQueue, snsSubs, msgId, sLast>>

(***************************************************************************)
(* Handlers as functions on the part of the state one call can touch.      *)
(* w.exc is the exception in flight ("none" when the call is returning     *)
(* normally), w.orig the exception first raised inside start()'s try       *)
(* block, w.tr the engine and logger steps the call has made, in order.    *)
(***************************************************************************)
World(m) ==
    [eng |-> engine[m], h |-> handle[m], sink |-> sink[m], nid |-> nextId,
     exc |-> "none", orig |-> "none", tr |-> <<>>]

LogLine(kind, id, n) == [k |-> kind, id |-> id, n |-> n]

\* self.logger.info(line)
Info(w, line) == [w EXCEPT !.sink = Append(@, line)]

Step(w, s) == [w EXCEPT !.tr = Append(@, s)]

Raise(w, e) == [w EXCEPT !.exc = e]

\* bytes.decode() is strict UTF-8: it raises on bytes that are not text
Decodable(logs) == \A i \in 1..Len(logs) : logs[i] # "bad"

\* decode().split("\n"): one entry per line written, then the empty string
\* that follows the last newline ("".split("\n") is [""])
SplitLines(id, logs) ==
    [i \in 1..(Len(logs) + 1) |->
        IF i <= Len(logs) THEN LogLine("log", id, i) ELSE LogLine("empty", id, 0)]

RECURSIVE InfoAll(_, _)
InfoAll(w, lines) ==
    IF lines = <<>> THEN w ELSE InfoAll(Info(w, Head(lines)), Tail(lines))

\* DockerContainer._forward_container_logs_to_logger
ForwardLogs(w) ==
    IF w.h = 0 THEN w
    ELSE IF w.eng.id # w.h THEN Raise(Step(w, "logs"), "NotFound")
    ELSE IF ~Decodable(w.eng.logs) THEN Raise(Step(w, "logs"), "UnicodeDecodeError")
    ELSE Step(InfoAll(Step(w, "logs"), SplitLines(w.eng.id, w.eng.logs)), "flushed")

\* DockerClient.run(image, command, detach=True, name=...): the engine creates
\* the container under the manager's name and then starts its process
EngineRun(w, out, early) ==
    LET c == [id |-> w.nid, status |-> "running", logs |-> early, attached |-> TRUE]
        w1 == Step([w EXCEPT !.nid = @ + 1], "run")
    IN  IF w.eng.status # "absent" \/ out = "create_fail"
        THEN Raise(w1, "APIError")
        ELSE IF out = "start_fail"
        THEN Raise([w1 EXCEPT !.eng = [c EXCEPT !.status = "created", !.logs = <<>>]],
                   "APIError")
        ELSE [w1 EXCEPT !.eng = c, !.h = c.id]

\* DockerContainer._start
StartInner(w, out, early) ==
    LET w1 == EngineRun(Info(w, LogLine("pull", 0, 0)), out, early)
    IN  IF w1.exc # "none" THEN w1
        ELSE Info(w1, LogLine("started", w1.h, 0))

\* log_message_on_container_start() of the variant, then logger.info(message)
StartMessage(w, v) ==
    IF v = "BrokenHook" THEN Raise(Step(w, "hook"), "RuntimeError")
    ELSE IF v = "Silent" THEN Step(w, "hook")
    ELSE Info(Step(w, "hook"), LogLine("message", w.h, 0))

\* faulty variant: the logs flushed when start() succeeds too (finally for except)
BaseStart_FlushAlways(w, v, out, early) ==
    LET a == StartInner(w, out, early)
        b == IF a.exc # "none" THEN a ELSE StartMessage(a, v)
        f == ForwardLogs([b EXCEPT !.exc = "none", !.orig = b.exc])
    IN  IF f.exc # "none" \/ b.exc = "none" THEN f ELSE Step(Raise(f, b.exc), "reraise")

\* DockerContainer.start
BaseStart(w, v, out, early) ==
    LET a == StartInner(w, out, early)
        b == IF a.exc # "none" THEN a ELSE StartMessage(a, v)
    IN  IF b.exc = "none" THEN b
        ELSE LET f == ForwardLogs([b EXCEPT !.exc = "none", !.orig = b.exc])
             IN  IF f.exc # "none" THEN f ELSE Step(Raise(f, b.exc), "reraise")

\* container.exec("sh -c 'echo ... >> /proc/1/fd/1'")
ExecEcho(w) ==
    IF Len(w.eng.logs) < MaxLog
    THEN [w EXCEPT !.eng.logs = Append(@, "text")] ELSE w

\* start() as the variant defines it: FailingHealthcheckContainer.start calls
\* super().start(), writes to the container's log and raises
VariantStart(w, v, out, early) ==
    LET b == BaseStart(w, v, out, early)
    IN  IF v = "FailingHealthcheck" /\ b.exc = "none"
        THEN Raise(Step(ExecEcho(b), "healthcheck"), "RuntimeError")
        ELSE b

\* testcontainers' DockerContainer.stop(force, delete_volume): removes the
\* container the handle names, if there is a handle
LibraryStop(w) ==
    IF w.h = 0 THEN w
    ELSE IF w.eng.id # w.h THEN Raise(Step(w, "remove"), "NotFound")
    ELSE Step([w EXCEPT !.eng = NoContainer], "remove(force,v)")

\* DockerContainer._stop
StopInner(w) ==
    LET a == LibraryStop(w)
    IN  IF a.exc # "none" THEN a ELSE Step([a EXCEPT !.h = 0], "clear")

\* faulty variant: the container removed first, its logs asked for afterwards
StopOp_RemoveFirst(w) ==
    LET a == StopInner(w)
    IN  IF a.exc # "none" THEN a ELSE ForwardLogs(a)

\* DockerContainer.stop
StopOp(w) ==
    LET a == ForwardLogs(w)
    IN  IF a.exc # "none" THEN a ELSE StopInner(a)

\* faulty variant: the "started" line logged again after the restart
RestartOp_Relog(w) ==
    IF w.h = 0 THEN Raise(w, "AttributeError")
    ELSE IF w.eng.id # w.h THEN Raise(Step(w, "restart"), "NotFound")
    ELSE Info(Step([w EXCEPT !.eng.status = "running"], "restart"),
              LogLine("started", w.h, 0))

\* DockerContainer.restart
RestartOp(w) ==
    IF w.h = 0 THEN Raise(w, "AttributeError")
    ELSE IF w.eng.id # w.h THEN Raise(Step(w, "restart"), "NotFound")
    ELSE Step([w EXCEPT !.eng.status = "running"], "restart")

\* testcontainers' DockerContainer.__del__: stop() if a handle is held, any
\* exception discarded
FinalizeOp(w) ==
    IF w.h = 0 THEN w
    ELSE LET a == StopOp(w) IN IF a.exc # "none" THEN [w EXCEPT !.tr = a.tr] ELSE a

(***************************************************************************)
(* Address resolution.                                                     *)
(***************************************************************************)
GatewayIp == "172.17.0.1"
InternalIp(m) == IF m = "m1" THEN "172.17.0.2" ELSE "172.17.0.3"

\* what DockerClient.host() can report: nothing, the bridge gateway, another host
Hosts == {"", GatewayIp, "docker.example"}
\* os.getenv("DOCKER_HOST"): unset, set to the empty string, set to an address
DockerHostEnv == {"unset", "", "tcp://docker.example:2375"}

IsRaise(r) == r \in {"raise:AttributeError", "raise:RuntimeError", "raise:KeyError"}

\* faulty variant: a missing network attribute read with a default (.get(attr, ""))
NetworkAttr_Default(m, value) ==
    IF handle[m] = 0 THEN "raise:AttributeError"
    ELSE IF engine[m].id # handle[m] \/ engine[m].status # "running"
    THEN "raise:RuntimeError"
    ELSE IF ~engine[m].attached THEN ""
    ELSE value

\* get_docker_client().get_container(self.get_wrapped_container().id)
\*   ["NetworkSettings"]["Networks"][self.network][attr]
NetworkAttr(m, value) ==
    IF handle[m] = 0 THEN "raise:AttributeError"
    ELSE IF engine[m].id # handle[m] \/ engine[m].status # "running"
    THEN "raise:RuntimeError"
    ELSE IF ~engine[m].attached THEN "raise:KeyError"
    ELSE value

\* DockerContainer.get_container_internal_ip
GetContainerInternalIp(m) == NetworkAttr(m, InternalIp(m))

\* DockerContainer.get_container_gateway_ip
GetContainerGatewayIp(m) == NetworkAttr(m, GatewayIp)

\* faulty variant: the inside-a-container branch taken before the engine host is looked at
GetContainerHostIp_InsideFirst(m, host, inside, env) ==
    IF inside /\ env \in {"unset", ""}
    THEN LET gateway_ip == GetContainerGatewayIp(m)
         IN  IF IsRaise(gateway_ip) THEN gateway_ip
             ELSE IF gateway_ip = host THEN GetContainerInternalIp(m)
             ELSE gateway_ip
    ELSE IF host = "" THEN "localhost"
    ELSE host

\* DockerContainer.get_container_host_ip
GetContainerHostIp(m, host, inside, env) ==
    IF host = "" THEN "localhost"
    ELSE IF inside /\ env \in {"unset", ""}
    THEN LET gateway_ip == GetContainerGatewayIp(m)
         IN  IF IsRaise(gateway_ip) THEN gateway_ip
             ELSE IF gateway_ip = host THEN GetContainerInternalIp(m)
             ELSE gateway_ip
    ELSE host

(***************************************************************************)
(* Image builder (EphemeralDockerImage): the engine's builders and the      *)
(* builder's methods as functions on the part of the state a call can      *)
(* touch.  b.exc is the exception in flight, b.ret the image a build        *)
(* method returns, b.failed whether the engine call or the CLI process      *)
(* failed, b.tr the engine and process calls made, in order.                *)
(***************************************************************************)
\* the build files of the tests: hello world, one that mounts a build-time
\* secret, and one with the stages base, development and release
Dockerfiles == {"hello", "secret", "multi"}

Targets == {"none", "development", "release"}

\* os.getenv("DOCKER_BUILDKIT"): unset, set to the empty string, set to "1"
BuildkitEnv == {"unset", "", "1"}

DefaultContext == "."

\* an image is identified by what it was built from
NoImage == [df |-> "none", stage |-> "none"]

NoImageCall ==
    [op |-> "none", exc |-> "none", body |-> "none", ret |-> NoImage, pre |-> NoImage,
     store |-> {}, env |-> "unset", failed |-> FALSE, tr |-> <<>>]

\* the stages a build file declares, in order
Stages(df) ==
    IF df = "multi" THEN <<"base", "development", "release">> ELSE <<"0">>

\* RUN --mount=type=secret,... is in the build file
NeedsSecretMount(df) == df = "secret"

\* a build by the engine: the image of the target stage, of the last stage
\* declared when no target is given; no image when the target is not a stage
\* of the file, or when the file mounts a secret and the builder cannot
EngineBuild(df, target, mounts) ==
    LET stages == Stages(df)
    IN  IF NeedsSecretMount(df) /\ ~mounts THEN [ok |-> FALSE, img |-> NoImage]
        ELSE IF target = "none"
        THEN [ok |-> TRUE, img |-> [df |-> df, stage |-> stages[Len(stages)]]]
        ELSE IF \E i \in 1..Len(stages) : stages[i] = target
        THEN [ok |-> TRUE, img |-> [df |-> df, stage |-> target]]
        ELSE [ok |-> FALSE, img |-> NoImage]

\* client.images.build(dockerfile=, path=, target=, forcerm=True): the
\* engine's own builder, which cannot mount secrets
ApiBuild(dockerfile, path, target) == EngineBuild(dockerfile, target, FALSE)

\* the value that follows a flag on a command line, "none" without the flag
Flag(cmd, name) ==
    IF \E i \in 1..(Len(cmd) - 1) : cmd[i] = name
    THEN cmd[(CHOOSE i \in 1..(Len(cmd) - 1) : cmd[i] = name) + 1]
    ELSE "none"

\* the docker build process run on a command line, with DOCKER_BUILDKIT set
\* in its environment: the BuildKit builder, which can mount secrets
CliBuild(cmd) == EngineBuild(Flag(cmd, "-f"), Flag(cmd, "--target"), TRUE)

\* faulty variant: the target left off the command line
BuildCmd_NoTarget(dockerfile, target, context) ==
    <<"docker", "build", "-q", "--rm=true">>
        \o (IF dockerfile # "none" THEN <<"-f", dockerfile>> ELSE <<>>)
        \o <<context>>

\* the command line _build_with_docker_buildkit puts together
BuildCmd(dockerfile, target, context) ==
    <<"docker", "build", "-q", "--rm=true">>
        \o (IF dockerfile # "none" THEN <<"-f", dockerfile>> ELSE <<>>)
        \o (IF target # "none" THEN <<"--target", target>> ELSE <<>>)
        \o <<context>>

ImageWorld ==
    [store |-> images, image |-> image, exc |-> "none", ret |-> NoImage,
     failed |-> FALSE, tr |-> <<>>]

ImageStep(b, s) == [b EXCEPT !.tr = Append(@, s)]

\* faulty variant: the process run without check=True, its exit status not looked at
BuildWithDockerBuildkit_NoCheck(b, dockerfile, target, context) ==
    LET r == CliBuild(BuildCmd(dockerfile, target, context))
        b1 == ImageStep(b, "docker build")
    IN  IF ~r.ok THEN [b1 EXCEPT !.failed = TRUE, !.ret = r.img]
        ELSE [b1 EXCEPT !.store = @ \cup {r.img}, !.ret = r.img]

\* EphemeralDockerImage._build_with_docker_buildkit
BuildWithDockerBuildkit(b, dockerfile, target, context) ==
    LET r == CliBuild(BuildCmd(dockerfile, target, context))
        b1 == ImageStep(b, "docker build")
    IN  IF ~r.ok THEN [b1 EXCEPT !.failed = TRUE, !.exc = "CalledProcessError"]
        ELSE LET b2 == ImageStep([b1 EXCEPT !.store = @ \cup {r.img}], "images.get")
             IN  IF r.img \in b2.store THEN [b2 EXCEPT !.ret = r.img]
                 ELSE [b2 EXCEPT !.exc = "ImageNotFound"]

\* EphemeralDockerImage._build_with_docker_client
BuildWithDockerClient(b, dockerfile, target, context) ==
    LET r == ApiBuild(dockerfile, context, target)
        b1 == ImageStep(b, "images.build")
    IN  IF ~r.ok THEN [b1 EXCEPT !.failed = TRUE, !.exc = "BuildError"]
        ELSE [b1 EXCEPT !.store = @ \cup {r.img}, !.ret = r.img]

\* if os.getenv("DOCKER_BUILDKIT"): None and the empty string are false
Truthy(env) == env \notin {"unset", ""}

\* faulty variant: the toggle not looked at, the engine's own builder always used
BuildImage_DirectOnly(b, env, dockerfile, target, context) ==
    LET a == BuildWithDockerClient(b, dockerfile, target, context)
    IN  IF a.exc # "none" THEN a ELSE [a EXCEPT !.image = a.ret]

\* EphemeralDockerImage.build_image
BuildImage(b, env, dockerfile, target, context) ==
    LET a == IF Truthy(env)
             THEN BuildWithDockerBuildkit(b, dockerfile, target, context)
             ELSE BuildWithDockerClient(b, dockerfile, target, context)
    IN  IF a.exc # "none" THEN a ELSE [a EXCEPT !.image = a.ret]

\* EphemeralDockerImage.remove_image: client.images.remove(image=id), which
\* the engine refuses while a container created from the image exists
RemoveImage(b, users) ==
    IF b.image = NoImage THEN [b EXCEPT !.exc = "AttributeError"]
    ELSE LET b1 == ImageStep(b, "images.remove")
         IN  IF b.image \notin b.store THEN [b1 EXCEPT !.exc = "ImageNotFound"]
             ELSE IF b.image \in users THEN [b1 EXCEPT !.exc = "APIError"]
             ELSE [b1 EXCEPT !.store = @ \ {b.image}]

\* EphemeralDockerImage.__enter__
ImageEnterOp(b, env, dockerfile, target, context) ==
    LET a == BuildImage(b, env, dockerfile, target, context)
    IN  IF a.exc # "none" THEN a ELSE [a EXCEPT !.ret = a.image]

\* EphemeralDockerImage.__exit__
ImageExitOp(b, users) == RemoveImage(b, users)

(***************************************************************************)
(* SNS/SQS test client (SNSSQSTestClient in clients/snssqs.py).  A name is  *)
(* the sequence of the parts it is written with, an ARN the account prefix  *)
(* followed by the name.                                                    *)
(***************************************************************************)
\* the topics of the tests: "created" and "order--created"
TopicNames == {<<"created">>, <<"order", "--", "created">>}

QueueName == <<"customer", "--", "order-created">>

TopicArn(name) == <<"arn:aws:sns:us-east-1:000000000000:">> \o name

QueueArn(name) == <<"arn:aws:sqs:us-east-1:000000000000:">> \o name

\* str.endswith
EndsWith(str, suffix) ==
    /\ Len(suffix) <= Len(str)
    /\ SubSeq(str, Len(str) - Len(suffix) + 1, Len(str)) = suffix

NoArn == <<>>

NoSnsCall ==
    [op |-> "none", topic |-> <<>>, exc |-> "none", arn |-> NoArn, created |-> FALSE,
     had |-> {}, batch |-> <<>>, ret |-> <<>>, deleted |-> {}]

\* the ARNs get_topic_arn can return: list_topics gives the topics in an order
\* of the service's choosing, and the first whose ARN ends with the name is
\* taken
TopicArnMatches(topics, topic) ==
    {TopicArn(n) : n \in {x \in topics : EndsWith(TopicArn(x), topic)}}

\* SNSSQSTestClient.create_topic, with the ARN `found` that get_topic_arn gave
\* (NoArn when it raised TopicDoesNotExist)
CreateTopic(topics, topic, found) ==
    IF found # NoArn THEN [topics |-> topics, arn |-> found, created |-> FALSE]
    ELSE [topics |-> topics \cup {topic}, arn |-> TopicArn(topic), created |-> TRUE]

\* the loop of SNSSQSTestClient.receive over the messages received: parse,
\* append, delete, one message after the other; an exception of parse_message
\* ends the call
RECURSIVE ReceiveLoop(_, _, _)
ReceiveLoop(batch, parsed, deleted) ==
    IF batch = <<>> THEN [exc |-> "none", ret |-> parsed, deleted |-> deleted]
    ELSE IF ~Head(batch).ok
    THEN [exc |-> "ParseError", ret |-> <<>>, deleted |-> deleted]
    ELSE ReceiveLoop(Tail(batch), Append(parsed, Head(batch).id),
                     deleted \cup {Head(batch).id})

\* SelectSeq with the test written out: the messages of q not in `gone`
RECURSIVE Without(_, _)
Without(q, gone) ==
    IF q = <<>> THEN <<>>
    ELSE IF Head(q).id \in gone THEN Without(Tail(q), gone)
    ELSE <<Head(q)>> \o Without(Tail(q), gone)

(***************************************************************************)
(* Actions: one per operation a caller, the runtime or the container can   *)
(* perform.                                                                *)
(***************************************************************************)
\* faulty variant: the handle kept on the class, one for all the managers
Commit_SharedHandle(m, w) ==
    /\ engine' = [engine EXCEPT ![m] = w.eng]
    /\ handle' = [x \in Managers |-> w.h]
    /\ sink' = [sink EXCEPT ![m] = w.sink]
    /\ nextId' = w.nid

Commit(m, w) ==
    /\ engine' = [engine EXCEPT ![m] = w.eng]
    /\ handle' = [handle EXCEPT ![m] = w.h]
    /\ sink' = [sink EXCEPT ![m] = w.sink]
    /\ nextId' = w.nid

Called(m, op, w, r, a) ==
    last' = [m |-> m, op |-> op, exc |-> w.exc, orig |-> w.orig, ret |-> r,
             pre |-> handle[m], tr |-> w.tr, args |-> a]

\* DockerContainer.__init__ for the managers in `made`, each an instance of
\* one of the variants in `kinds`: no handle, nothing in the engine, nothing
\* logged
InitWith(made, kinds) ==
    /\ engine = [m \in Managers |-> NoContainer]
    /\ nextId = 1
    /\ handle = [m \in Managers |-> 0]
    /\ variant \in {f \in [Managers -> Variants] :
                        /\ \A m \in made : f[m] \in kinds
                        /\ \A m \in Managers \ made : f[m] = "Working"}
    /\ inScope = [m \in Managers |-> FALSE]
    /\ ref = [m \in Managers |-> IF m \in made THEN "held" ELSE "unborn"]
    /\ sink = [m \in Managers |-> <<>>]
    /\ last = NoCall

NoResult == [kind |-> "none", v |-> "none"]

\* a probe that has not been called
IdleProbe == [pc |-> "idle", clock |-> 0, hist |-> <<>>, res |-> NoResult]

\* no probe has been called
ProbeIdle ==
    /\ pKind = "until"
    /\ pAsync = FALSE
    /\ twin = IdleProbe
    /\ sched = "idle"
    /\ pWaits = 0
    /\ otherRan = FALSE
    /\ served = 0
    /\ pPc = "idle"
    /\ pInterval = 0
    /\ pStopAfter = 0
    /\ pClock = 0
    /\ pHist = <<>>
    /\ pResult = NoResult

\* no builder in use
ImageIdle ==
    /\ iDockerfile = "hello"
    /\ iTarget = "none"
    /\ buildkit = "unset"
    /\ images = {}
    /\ imageUsers = {}
    /\ image = NoImage
    /\ iInScope = FALSE
    /\ iLast = NoImageCall

\* nothing in SNS and SQS, no call made
SnsIdle ==
    /\ snsTopics = {}
    /\ sqsMade = FALSE
    /\ sqsQueue = <<>>
    /\ snsSubs = {}
    /\ msgId = 1
    /\ sLast = NoSnsCall

\* one manager under test
Init == InitWith({"m1"}, Variants) /\ ProbeIdle /\ ImageIdle /\ SnsIdle

\* container.start()
Start(m) ==
    /\ ref[m] = "held"
    /\ nextId <= MaxStarts
    /\ \E out \in RunOutcomes, early \in EarlyOutput :
         LET w == VariantStart(World(m), variant[m], out, early)
         IN  Commit(m, w) /\ Called(m, "start", w, "none", NoArgs)
    /\ UNCHANGED <<variant, inScope, ref>>
    /\ UNCHANGED probeVars
    /\ UNCHANGED imageVars
    /\ UNCHANGED snsVars

\* container.stop()
Stop(m) ==
    /\ ref[m] = "held"
    /\ LET w == StopOp(World(m))
       IN  Commit(m, w) /\ Called(m, "stop", w, "none", NoArgs)
    /\ UNCHANGED <<variant, inScope, ref>>
    /\ UNCHANGED probeVars
    /\ UNCHANGED imageVars
    /\ UNCHANGED snsVars

\* container.restart()
Restart(m) ==
    /\ ref[m] = "held"
    /\ LET w == RestartOp(World(m))
       IN  Commit(m, w) /\ Called(m, "restart", w, "none", NoArgs)
    /\ UNCHANGED <<variant, inScope, ref>>
    /\ UNCHANGED probeVars
    /\ UNCHANGED imageVars
    /\ UNCHANGED snsVars

\* with container: ...   __enter__ returns self.start(); when it raises, the
\* block is not entered and __exit__ is not called
ScopeEnter(m) ==
    /\ ref[m] = "held"
    /\ ~inScope[m]
    /\ nextId <= MaxStarts
    /\ \E out \in RunOutcomes, early \in EarlyOutput :
         LET w == VariantStart(World(m), variant[m], out, early)
         IN  /\ Commit(m, w)
             /\ Called(m, "enter", w, "none", NoArgs)
             /\ inScope' = [inScope EXCEPT ![m] = (w.exc = "none")]
    /\ UNCHANGED <<variant, ref>>
    /\ UNCHANGED probeVars
    /\ UNCHANGED imageVars
    /\ UNCHANGED snsVars

\* the end of the with-block, left normally or by an error raised in its
\* body: __exit__ calls self.stop() and does not suppress the body's error
ScopeExit(m) ==
    /\ ref[m] = "held"
    /\ inScope[m]
    /\ \E body \in {"none", "ValueError"} :
         LET s == StopOp(World(m))
             w == IF s.exc # "none" THEN s ELSE [s EXCEPT !.exc = body]
         IN  Commit(m, w) /\ Called(m, "exit", w, "none", NoArgs)
    /\ inScope' = [inScope EXCEPT ![m] = FALSE]
    /\ UNCHANGED <<variant, ref>>
    /\ UNCHANGED probeVars
    /\ UNCHANGED imageVars
    /\ UNCHANGED snsVars

\* the caller lets go of its last reference to the manager
DropReference(m) ==
    /\ ref[m] = "held"
    /\ ~inScope[m]
    /\ ref' = [ref EXCEPT ![m] = "dropped"]
    /\ UNCHANGED <<engine, nextId, handle, variant, inScope, sink, last>>
    /\ UNCHANGED probeVars
    /\ UNCHANGED imageVars
    /\ UNCHANGED snsVars

\* the runtime collects the unreachable manager: __del__ runs
Collect(m) ==
    /\ ref[m] = "dropped"
    /\ LET w == FinalizeOp(World(m))
       IN  Commit(m, w) /\ Called(m, "del", w, "none", NoArgs)
    /\ ref' = [ref EXCEPT ![m] = "collected"]
    /\ UNCHANGED <<variant, inScope>>
    /\ UNCHANGED probeVars
    /\ UNCHANGED imageVars
    /\ UNCHANGED snsVars

\* the container's process writes to its standard output
ContainerLog(m) ==
    /\ engine[m].status = "running"
    /\ Len(engine[m].logs) < MaxLog
    /\ \E chunk \in LogChunks :
         engine' = [engine EXCEPT ![m].logs = Append(@, chunk)]
    /\ UNCHANGED <<nextId, handle, variant, inScope, ref, sink, last>>
    /\ UNCHANGED probeVars
    /\ UNCHANGED imageVars
    /\ UNCHANGED snsVars

\* the container's process ends
ContainerExit(m) ==
    /\ engine[m].status = "running"
    /\ engine' = [engine EXCEPT ![m].status = "exited"]
    /\ UNCHANGED <<nextId, handle, variant, inScope, ref, sink, last>>
    /\ UNCHANGED probeVars
    /\ UNCHANGED imageVars
    /\ UNCHANGED snsVars

\* the container is disconnected from the manager's network in the engine
NetworkDisconnect(m) ==
    /\ engine[m].status = "running"
    /\ engine[m].attached
    /\ engine' = [engine EXCEPT ![m].attached = FALSE]
    /\ UNCHANGED <<nextId, handle, variant, inScope, ref, sink, last>>
    /\ UNCHANGED probeVars
    /\ UNCHANGED imageVars
    /\ UNCHANGED snsVars

\* container.get_container_internal_ip()
QueryInternalIp(m) ==
    /\ ref[m] = "held"
    /\ last' = [NoCall EXCEPT !.m = m, !.op = "internal_ip", !.pre = handle[m],
                              !.ret = GetContainerInternalIp(m)]
    /\ UNCHANGED <<engine, nextId, handle, variant, inScope, ref, sink>>
    /\ UNCHANGED probeVars
    /\ UNCHANGED imageVars
    /\ UNCHANGED snsVars

\* container.get_container_gateway_ip()
QueryGatewayIp(m) ==
    /\ ref[m] = "held"
    /\ last' = [NoCall EXCEPT !.m = m, !.op = "gateway_ip", !.pre = handle[m],
                              !.ret = GetContainerGatewayIp(m)]
    /\ UNCHANGED <<engine, nextId, handle, variant, inScope, ref, sink>>
    /\ UNCHANGED probeVars
    /\ UNCHANGED imageVars
    /\ UNCHANGED snsVars

\* container.get_container_host_ip(), in an environment read at the call
QueryHostIp(m) ==
    /\ ref[m] = "held"
    /\ \E host \in Hosts, inside \in BOOLEAN, env \in DockerHostEnv :
         last' = [NoCall EXCEPT !.m = m, !.op = "host_ip", !.pre = handle[m],
                    !.args = [host |-> host, inside |-> inside, env |-> env],
                    !.ret = GetContainerHostIp(m, host, inside, env)]
    /\ UNCHANGED <<engine, nextId, handle, variant, inScope, ref, sink>>
    /\ UNCHANGED probeVars
    /\ UNCHANGED imageVars
    /\ UNCHANGED snsVars

\* the lifecycle of the managers and of their containers
Next ==
    \E m \in Managers :
        \/ Start(m)
        \/ Stop(m)
        \/ Restart(m)
        \/ ScopeEnter(m)
        \/ ScopeExit(m)
        \/ DropReference(m)
        \/ Collect(m)
        \/ ContainerLog(m)
        \/ ContainerExit(m)
        \/ NetworkDisconnect(m)

Spec == Init /\ [][Next]_vars

\* the same lifecycle, of a WorkingContainer, with the address queries a caller
\* can make at any point of it
InitAddr == InitWith({"m1"}, {"Working"}) /\ ProbeIdle /\ ImageIdle /\ SnsIdle

NextAddr ==
    \/ Next
    \/ \E m \in Managers :
        \/ QueryInternalIp(m)
        \/ QueryGatewayIp(m)
        \/ QueryHostIp(m)

SpecAddr == InitAddr /\ [][NextAddr]_vars

\* two managers, each a WorkingContainer, started, stopped and restarted in
\* any order while their containers run
InitPair == InitWith(Managers, {"Working"}) /\ ProbeIdle /\ ImageIdle /\ SnsIdle

NextPair ==
    \E m \in Managers :
        \/ Start(m)
        \/ Stop(m)
        \/ Restart(m)
        \/ ContainerLog(m)
        \/ ContainerExit(m)

SpecPair == InitPair /\ [][NextPair]_vars

(***************************************************************************)
(* Probe engine: probe_until and probe_during_interval.  One action per    *)
(* stretch of the coroutine between two suspensions.                       *)
(***************************************************************************)
ProbeKinds == {"until", "during"}

\* what one invocation of check can do: return a value (truthy or not) or
\* raise; v is the value, or the exception's type and message
CheckOutcomes ==
    {[ok |-> TRUE, v |-> "True"],
     [ok |-> TRUE, v |-> "None"],
     [ok |-> FALSE, v |-> "AssertionError: assert False"],
     [ok |-> FALSE, v |-> "ValueError: Something went wrong"]}

\* check(): a plain function has run by the time the call is over and has
\* returned or raised (o); a coroutine function has only made a coroutine,
\* which will return or raise (o) when it is awaited
Invoke(async, o) == [coro |-> async, o |-> o]

\* faulty variant: the coroutine taken for the result of the check, never awaited
Settle_NoAwait(raw) ==
    IF raw.coro THEN [ok |-> TRUE, v |-> "coroutine object"] ELSE raw.o

\* the outcome of an attempt: what the call gave, awaited first when it is a
\* coroutine
Settle(raw) == raw.o

\* faulty variant: the budget counted twice over
DeadlinePassed_Doubled(clock, stop_after) == clock > 2 * stop_after

\* the budget is used up once the elapsed time exceeds stop_after
DeadlinePassed(clock, stop_after) == clock > stop_after

\* faulty variant: the first exception raised by check kept, not the last
FinalFailure_First(hist) == [kind |-> "raise", v |-> hist[1].v]

\* what probe_until raises when the budget is used up: the exception of the
\* last invocation of check, as it was raised
FinalFailure(hist) == [kind |-> "raise", v |-> hist[Len(hist)].v]

\* faulty variant: after a success the probe sleeps out the interval and checks again
AfterSuccess_KeepProbing(o) == [pc |-> "sleeping", res |-> [kind |-> "none", v |-> "none"]]

\* what probe_until does when check has not raised: it returns the result
AfterSuccess(o) == [pc |-> "returned", res |-> [kind |-> "return", v |-> o.v]]

\* faulty variant: a failure inside the window retried after the interval
WindowFailure_Retry(o) == [pc |-> "sleeping", res |-> NoResult]

\* what probe_during_interval does when check has raised: it raises the same
WindowFailure(o) == [pc |-> "raised", res |-> [kind |-> "raise", v |-> o.v]]

\* faulty variant: the first success returned, the window not waited out
WindowSuccess_AtOnce(o, over) ==
    [pc |-> "returned", res |-> [kind |-> "return", v |-> o.v]]

\* what probe_during_interval does when check has not raised: it goes on
\* until the window is over, and then returns the result
WindowSuccess(o, over) ==
    IF over THEN [pc |-> "returned", res |-> [kind |-> "return", v |-> o.v]]
    ELSE [pc |-> "sleeping", res |-> NoResult]

\* one attempt of a probe in state p: check is invoked (and awaited, if the
\* call gave a coroutine), which takes d ticks; then the probe returns,
\* raises, or goes to sleep for the interval
Attempt(kind, stop_after, p, raw, d) ==
    LET o == Settle(raw)
        clock == p.clock + d
        hist == Append(p.hist, [ok |-> o.ok, v |-> o.v, s |-> p.clock, t |-> clock])
        over == DeadlinePassed(clock, stop_after)
        next == IF kind = "until"
                THEN IF o.ok THEN AfterSuccess(o)
                     ELSE IF over THEN [pc |-> "raised", res |-> FinalFailure(hist)]
                     ELSE [pc |-> "sleeping", res |-> NoResult]
                ELSE IF o.ok THEN WindowSuccess(o, over)
                     ELSE WindowFailure(o)
    IN  [pc |-> next.pc, clock |-> clock, hist |-> hist, res |-> next.res]

\* the sleep of probe_interval is over
Wake(interval, p) == [p EXCEPT !.pc = "ready", !.clock = @ + interval]

\* faulty variant: the interval waited out without giving up the scheduler
\* (a blocking sleep)
Holder_Blocking(pc) == IF pc \in {"ready", "sleeping"} THEN "probe" ELSE "idle"

\* who holds the scheduler when the probe is at pc: the probe while it runs;
\* nobody while it is suspended in its sleep, and once it has ended
Holder(pc) == IF pc = "ready" THEN "probe" ELSE "idle"

Probe == [pc |-> pPc, clock |-> pClock, hist |-> pHist, res |-> pResult]

SetProbe(p) ==
    /\ pPc' = p.pc
    /\ pClock' = p.clock
    /\ pHist' = p.hist
    /\ pResult' = p.res

\* await probe_until(check, probe_interval, stop_after) or
\* await probe_during_interval(check, probe_interval, stop_after) is called
ProbeStart ==
    /\ pPc = "idle"
    /\ \E kind \in ProbeKinds, async \in BOOLEAN,
          interval \in 1..MaxInterval, stop_after \in 0..MaxBudget :
         /\ pKind' = kind
         /\ pAsync' = async
         /\ pInterval' = interval
         /\ pStopAfter' = stop_after
    /\ pPc' = "ready"
    /\ sched' = Holder("ready")
    /\ twin' = [twin EXCEPT !.pc = "ready"]
    /\ UNCHANGED <<pClock, pHist, pResult, pWaits, otherRan, served>>
    /\ UNCHANGED containerVars
    /\ UNCHANGED imageVars
    /\ UNCHANGED snsVars

\* one attempt.  Running check takes time: the clock has moved by the time
\* the attempt is over
ProbeAttempt ==
    /\ pPc = "ready"
    /\ \E o \in CheckOutcomes, d \in 1..MaxCheckTicks :
         /\ SetProbe(Attempt(pKind, pStopAfter, Probe, Invoke(pAsync, o), d))
         /\ twin' = IF twin.pc = "ready"
                    THEN Attempt(pKind, pStopAfter, twin, Invoke(~pAsync, o), d)
                    ELSE twin
    /\ sched' = Holder(pPc')
    /\ otherRan' = FALSE
    /\ UNCHANGED <<pKind, pAsync, pInterval, pStopAfter, pWaits, served>>
    /\ UNCHANGED containerVars
    /\ UNCHANGED imageVars
    /\ UNCHANGED snsVars

\* the sleep of probe_interval between two attempts is over
ProbeWake ==
    /\ pPc = "sleeping"
    /\ SetProbe(Wake(pInterval, Probe))
    /\ twin' = IF twin.pc = "sleeping" THEN Wake(pInterval, twin) ELSE twin
    /\ sched' = Holder(pPc')
    /\ pWaits' = pWaits + 1
    /\ UNCHANGED <<pKind, pAsync, pInterval, pStopAfter, otherRan, served>>
    /\ UNCHANGED containerVars
    /\ UNCHANGED imageVars
    /\ UNCHANGED snsVars

\* another task of the same scheduler runs, when no task holds the scheduler,
\* and gives it up again; it takes no time of the clock
OtherTaskRun ==
    /\ pPc = "sleeping"
    /\ sched = "idle"
    /\ ~otherRan
    /\ otherRan' = TRUE
    /\ served' = served + 1
    /\ UNCHANGED <<pKind, pAsync, pPc, pInterval, pStopAfter, pClock, pHist, pResult,
                   twin, sched, pWaits>>
    /\ UNCHANGED containerVars
    /\ UNCHANGED imageVars
    /\ UNCHANGED snsVars

InitProbe == InitWith({}, Variants) /\ ProbeIdle /\ ImageIdle /\ SnsIdle

NextProbe == ProbeStart \/ ProbeAttempt \/ ProbeWake \/ OtherTaskRun

SpecProbe == InitProbe /\ [][NextProbe]_vars

(***************************************************************************)
(* Image builder: actions.                                                 *)
(***************************************************************************)
ImageCommit(b) ==
    /\ images' = b.store
    /\ image' = b.image

ImageCalled(op, b, body) ==
    iLast' = [op |-> op, exc |-> IF b.exc # "none" THEN b.exc ELSE body, body |-> body,
              ret |-> b.ret, pre |-> image, store |-> images, env |-> buildkit,
              failed |-> b.failed, tr |-> b.tr]

\* EphemeralDockerImage(dockerfile, target=...) of the tests: the context is
\* the default one, nothing is built yet
InitImageWith ==
    /\ iDockerfile \in Dockerfiles
    /\ iTarget \in Targets
    /\ buildkit \in BuildkitEnv
    /\ images = {}
    /\ imageUsers = {}
    /\ image = NoImage
    /\ iInScope = FALSE
    /\ iLast = NoImageCall

\* builder.build_image()
ImageBuild ==
    /\ LET b == BuildImage(ImageWorld, buildkit, iDockerfile, iTarget, DefaultContext)
       IN  ImageCommit(b) /\ ImageCalled("build", b, "none")
    /\ UNCHANGED <<iDockerfile, iTarget, buildkit, imageUsers, iInScope>>
    /\ UNCHANGED <<containerVars, probeVars>>
    /\ UNCHANGED snsVars

\* builder.remove_image()
ImageRemove ==
    /\ LET b == RemoveImage(ImageWorld, imageUsers)
       IN  ImageCommit(b) /\ ImageCalled("remove", b, "none")
    /\ UNCHANGED <<iDockerfile, iTarget, buildkit, imageUsers, iInScope>>
    /\ UNCHANGED <<containerVars, probeVars>>
    /\ UNCHANGED snsVars

\* with builder as image: ...   when __enter__ raises, the block is not
\* entered and __exit__ is not called
ImageScopeEnter ==
    /\ ~iInScope
    /\ LET b == ImageEnterOp(ImageWorld, buildkit, iDockerfile, iTarget, DefaultContext)
       IN  /\ ImageCommit(b)
           /\ ImageCalled("enter", b, "none")
           /\ iInScope' = (b.exc = "none")
    /\ UNCHANGED <<iDockerfile, iTarget, buildkit, imageUsers>>
    /\ UNCHANGED <<containerVars, probeVars>>
    /\ UNCHANGED snsVars

\* the end of the with-block, left normally or by an error raised in its body
ImageScopeExit ==
    /\ iInScope
    /\ \E body \in {"none", "ValueError"} :
         LET b == ImageExitOp(ImageWorld, imageUsers)
         IN  ImageCommit(b) /\ ImageCalled("exit", b, body)
    /\ iInScope' = FALSE
    /\ UNCHANGED <<iDockerfile, iTarget, buildkit, imageUsers>>
    /\ UNCHANGED <<containerVars, probeVars>>
    /\ UNCHANGED snsVars

\* monkeypatch.setenv("DOCKER_BUILDKIT", ...) / monkeypatch.delenv(...)
SetBuildkitEnv ==
    /\ \E env \in BuildkitEnv : env # buildkit /\ buildkit' = env
    /\ UNCHANGED <<iDockerfile, iTarget, images, imageUsers, image, iInScope, iLast>>
    /\ UNCHANGED <<containerVars, probeVars>>
    /\ UNCHANGED snsVars

\* a container is created from the image the builder holds (run(image=...))
ImageContainerCreate ==
    /\ image \in images
    /\ image \notin imageUsers
    /\ imageUsers' = imageUsers \cup {image}
    /\ UNCHANGED <<iDockerfile, iTarget, buildkit, images, image, iInScope, iLast>>
    /\ UNCHANGED <<containerVars, probeVars>>
    /\ UNCHANGED snsVars

\* the containers created from an image are removed from the engine
ImageContainerRemove ==
    /\ \E i \in imageUsers : imageUsers' = imageUsers \ {i}
    /\ UNCHANGED <<iDockerfile, iTarget, buildkit, images, image, iInScope, iLast>>
    /\ UNCHANGED <<containerVars, probeVars>>
    /\ UNCHANGED snsVars

InitImage == InitWith({}, Variants) /\ ProbeIdle /\ InitImageWith /\ SnsIdle

NextImage ==
    \/ ImageBuild
    \/ ImageRemove
    \/ ImageScopeEnter
    \/ ImageScopeExit
    \/ SetBuildkitEnv
    \/ ImageContainerCreate
    \/ ImageContainerRemove

SpecImage == InitImage /\ [][NextImage]_vars

(***************************************************************************)
(* SNS/SQS test client: actions.                                           *)
(***************************************************************************)
OtherVarsUnchanged == UNCHANGED <<containerVars, probeVars, imageVars>>

\* a topic is created in SNS by someone else (the service under test)
TopicAppears ==
    /\ \E t \in TopicNames \ snsTopics : snsTopics' = snsTopics \cup {t}
    /\ UNCHANGED <<sqsMade, sqsQueue, snsSubs, msgId, sLast>>
    /\ OtherVarsUnchanged

\* await client.create_topic(topic)
SnsCreateTopic ==
    /\ \E topic \in TopicNames :
         \E found \in IF TopicArnMatches(snsTopics, topic) = {} THEN {NoArn}
                      ELSE TopicArnMatches(snsTopics, topic) :
            LET c == CreateTopic(snsTopics, topic, found)
            IN  /\ snsTopics' = c.topics
                /\ sLast' = [NoSnsCall EXCEPT !.op = "create_topic", !.topic = topic,
                                !.arn = c.arn, !.created = c.created, !.had = snsTopics]
    /\ UNCHANGED <<sqsMade, sqsQueue, snsSubs, msgId>>
    /\ OtherVarsUnchanged

\* await client.subscribe_to(topic, queue): the topic and the queue are
\* created when they do not exist, then the queue is subscribed
SnsSubscribeTo ==
    /\ \E topic \in TopicNames :
         \E found \in IF TopicArnMatches(snsTopics, topic) = {} THEN {NoArn}
                      ELSE TopicArnMatches(snsTopics, topic) :
            LET c == CreateTopic(snsTopics, topic, found)
            IN  /\ snsTopics' = c.topics
                /\ sqsMade' = TRUE
                /\ snsSubs' = snsSubs \cup {<<c.arn, QueueArn(QueueName)>>}
                /\ sLast' = [NoSnsCall EXCEPT !.op = "subscribe_to", !.topic = topic,
                                !.arn = c.arn, !.created = c.created, !.had = snsTopics]
    /\ UNCHANGED <<sqsQueue, msgId>>
    /\ OtherVarsUnchanged

\* a message published to a subscribed topic is delivered to the queue; its
\* body is one the envelope can parse, or one it cannot
MessageArrives ==
    /\ sqsMade
    /\ snsSubs # {}
    /\ msgId <= MaxMessages
    /\ \E ok \in BOOLEAN : sqsQueue' = Append(sqsQueue, [id |-> msgId, ok |-> ok])
    /\ msgId' = msgId + 1
    /\ UNCHANGED <<snsTopics, sqsMade, snsSubs, sLast>>
    /\ OtherVarsUnchanged

\* await client.receive(queue, envelope, message_type, max_messages): SQS
\* hands over the oldest messages of the queue, as many as it chooses up to
\* max_messages
SnsReceive ==
    /\ \E n \in 0..Len(sqsQueue) :
         LET batch == SubSeq(sqsQueue, 1, n)
             r == IF ~sqsMade
                  THEN [exc |-> "QueueDoesNotExist", ret |-> <<>>, deleted |-> {}]
                  ELSE ReceiveLoop(batch, <<>>, {})
         IN  /\ sqsQueue' = Without(sqsQueue, r.deleted)
             /\ sLast' = [NoSnsCall EXCEPT !.op = "receive", !.exc = r.exc,
                             !.batch = batch, !.ret = r.ret, !.deleted = r.deleted]
    /\ UNCHANGED <<snsTopics, sqsMade, snsSubs, msgId>>
    /\ OtherVarsUnchanged

InitSns == InitWith({}, Variants) /\ ProbeIdle /\ ImageIdle /\ SnsIdle

NextSns ==
    \/ TopicAppears
    \/ SnsCreateTopic
    \/ SnsSubscribeTo
    \/ MessageArrives
    \/ SnsReceive

SpecSns == InitSns /\ [][NextSns]_vars

(***************************************************************************)
(* Properties of the container lifecycle manager.                          *)
(***************************************************************************)
Absent(m) == engine[m].status = "absent"

Range(f) == {f[i] : i \in DOMAIN f}

StartOps == {"start", "enter"}

\* C1: after start() has succeeded and stop() is then called, the container
\* no longer exists in the engine and the manager holds no handle.
C1_StartedThenStoppedIsRemoved ==
    (last.op = "stop" /\ last.pre # 0)
        => (Absent(last.m) /\ handle[last.m] = 0)

\* C2: stop() never raises, whatever state the manager is in (never started,
\* started, already stopped).
C2_StopNeverRaises ==
    last.op = "stop" => last.exc = "none"

\* C3: however a scope is left (its body completing, its body raising, or the
\* variant's start() failing after the base start succeeded), stop has run
\* and the container no longer exists in the engine.
C3_ScopeLeftMeansRemoved ==
    /\ last.op = "exit" => (Absent(last.m) /\ "clear" \in Range(last.tr))
    /\ (last.op = "enter" /\ last.exc # "none" /\ "healthcheck" \in Range(last.tr))
          => Absent(last.m)

\* C4: whenever start() raises, the container has been removed from the
\* engine by the time the error reaches the caller.
C4_FailedStartLeavesNoContainer ==
    (last.op \in StartOps /\ last.pre = 0 /\ last.exc # "none")
        => Absent(last.m)

\* C5: when start() fails, the error the caller observes is the one raised
\* inside start, never one raised by the log flush.
C5_StartFailurePropagatesOriginal ==
    (last.op \in StartOps /\ last.orig # "none") => last.exc = last.orig

\* C6: once a manager that still holds a started container has become
\* unreachable and been collected, the container is gone from the engine.
C6_CollectedMeansRemoved ==
    (last.op = "del" /\ last.pre # 0) => Absent(last.m)

\* the lines the logger of m receives in a step
NewLines(m) == SubSeq(sink'[m], Len(sink[m]) + 1, Len(sink'[m]))

\* C15: when a scope is left, every line its container has written is in the
\* logger sink; and what the manager is asked to do next, short of starting
\* again, forwards no container line the sink already holds.
C15_ScopeLogsForwardedOnce ==
    [][\A m \in Managers :
          /\ ScopeExit(m) =>
                \A i \in 1..Len(engine[m].logs) :
                    LogLine("log", engine[m].id, i) \in Range(sink'[m])
          /\ (last.m = m /\ last.op = "exit" /\ (Stop(m) \/ Restart(m) \/ Collect(m))) =>
                \A i \in 1..Len(NewLines(m)) :
                    NewLines(m)[i].k = "log" => NewLines(m)[i] \notin Range(sink[m])
      ]_vars

\* the logger of m receives a line of container output in the step
ForwardsOutput(m) ==
    \E i \in 1..Len(NewLines(m)) : NewLines(m)[i].k \in {"log", "empty"}

\* C16: the logger receives container output only in a step that is a start
\* that fails, a stop (called, or run by the finalizer) or the exit of a
\* scope; a started container writing to its log, and every other operation,
\* leave the sink without any line of it.
C16_ForwardsOnlyWhenTriggered ==
    [][\A m \in Managers :
          ForwardsOutput(m) =>
              \/ Stop(m)
              \/ ScopeExit(m)
              \/ Collect(m)
              \/ (Start(m) \/ ScopeEnter(m)) /\ last'.exc # "none"
      ]_vars

\* a container that start() has started and that has written to its log,
\* none of which has reached the logger
C16_Witness ==
    /\ last.m = "m1" /\ last.op = "start" /\ last.exc = "none"
    /\ handle["m1"] # 0
    /\ engine["m1"].id = handle["m1"]
    /\ engine["m1"].status = "running"
    /\ Len(engine["m1"].logs) = MaxLog
    /\ \A i \in 1..Len(sink["m1"]) : sink["m1"][i].k \notin {"log", "empty"}

\* the places of step x in the trace of a call
Places(tr, x) == {i \in 1..Len(tr) : tr[i] = x}

\* C21: when stop() on a manager that holds a handle removes the container,
\* it has forwarded every line of the container's log before, the removal is
\* the forced one that deletes the volumes too, and the handle is cleared
\* after the removal and not before; a handle is never cleared with the
\* container still in the engine.
C21_StopFlushesThenRemoves ==
    [][\A m \in Managers :
          (last'.op = "stop" /\ handle[m] # 0 /\ Stop(m)) =>
              LET tr == last'.tr
                  removals == Places(tr, "remove") \cup Places(tr, "remove(force,v)")
              IN  /\ Places(tr, "remove") = {}
                  /\ \A r \in removals :
                        /\ \E f \in Places(tr, "flushed") : f < r
                        /\ \A i \in 1..Len(engine[m].logs) :
                              \E j \in 1..Len(NewLines(m)) :
                                  NewLines(m)[j] = LogLine("log", engine[m].id, i)
                  /\ \A c \in Places(tr, "clear") : \E r \in removals : r < c
                  /\ handle'[m] = 0 => (removals # {} /\ engine'[m].status = "absent")
                  /\ engine'[m].status = "absent" => handle'[m] = 0
      ]_vars

\* stop() on a started container that has written to its log: flushed,
\* removed by force with its volumes, handle cleared, in that order
C21_Witness ==
    /\ last.op = "stop"
    /\ last.pre # 0
    /\ last.tr = <<"logs", "flushed", "remove(force,v)", "clear">>
    /\ \E i \in 1..Len(sink[last.m]) : sink[last.m][i].k = "log"
    /\ handle[last.m] = 0

\* C22: restart() on a manager that holds a handle leaves the handle and the
\* identity of the container as they are, asks the engine to run nothing, and
\* sends no line to the logger.
C22_RestartHasNoStartEffects ==
    [][\A m \in Managers :
          (last'.op = "restart" /\ handle[m] # 0 /\ Restart(m)) =>
              /\ handle'[m] = handle[m]
              /\ engine'[m].id = engine[m].id
              /\ nextId' = nextId
              /\ sink' = sink
              /\ Places(last'.tr, "run") = {}
      ]_vars

\* a restart of a started container that has written to its log
C22_Witness ==
    /\ last.op = "restart"
    /\ last.pre # 0
    /\ last.exc = "none"
    /\ handle[last.m] = last.pre
    /\ engine[last.m].id = last.pre
    /\ engine[last.m].status = "running"
    /\ Len(engine[last.m].logs) >= 1

Resolvable(m) ==
    /\ handle[m] # 0
    /\ engine[m].id = handle[m]
    /\ engine[m].status = "running"
    /\ engine[m].attached

\* a step that is an address query: the only steps that leave the engine, the
\* manager and its logger as they are
QueryStep == UNCHANGED <<engine, nextId, handle, variant, inScope, ref, sink>>

\* C7: get_container_host_ip() returns "localhost" when the engine reports no
\* host (even inside a container); else, inside a container with no
\* DOCKER_HOST override, the container's internal IP when its gateway IP
\* equals the engine host and the gateway IP otherwise (the query raising when
\* the container's network attributes cannot be read); else the engine host.
C7_HostIpDecisionOrder ==
    [][(last'.op = "host_ip" /\ QueryStep) =>
        LET m == last'.m
            a == last'.args
        IN  IF a.host = "" THEN last'.ret = "localhost"
            ELSE IF a.inside /\ a.env \in {"unset", ""}
            THEN IF Resolvable(m)
                 THEN last'.ret = (IF GatewayIp = a.host THEN InternalIp(m) ELSE GatewayIp)
                 ELSE IsRaise(last'.ret)
            ELSE last'.ret = a.host]_vars

\* a host-ip query answered with the internal IP: inside a container, no
\* override, the engine host being the container's gateway
C7_Witness ==
    /\ last.op = "host_ip"
    /\ last.args = [host |-> GatewayIp, inside |-> TRUE, env |-> "unset"]
    /\ last.ret = InternalIp(last.m)

\* C8: get_container_internal_ip() and get_container_gateway_ip() raise
\* whenever the manager holds no started container or the container is not
\* attached to the manager's network; they return no address then.
C8_AddressQueriesFail ==
    [][(/\ last'.op \in {"internal_ip", "gateway_ip"}
        /\ QueryStep
        /\ (handle[last'.m] = 0 \/ ~engine[last'.m].attached))
            => IsRaise(last'.ret)]_vars

\* a gateway query on a started, running container that has been detached
\* from the manager's network
C8_Witness ==
    /\ last.op = "gateway_ip"
    /\ last.pre # 0
    /\ engine[last.m].status = "running"
    /\ ~engine[last.m].attached
    /\ last.ret = "raise:KeyError"

Other(m) == CHOOSE x \in Managers : x # m

\* C24: a manager's handle, when it holds one, names its own container, the
\* containers of two managers are different ones, and a start(), stop() or
\* restart() on one manager leaves the other manager's container, handle and
\* logger as they are.
C24_ManagersAreIndependent ==
    [][\A m \in Managers :
          (last'.m = m /\ (Start(m) \/ Stop(m) \/ Restart(m))) =>
              /\ engine'[Other(m)] = engine[Other(m)]
              /\ handle'[Other(m)] = handle[Other(m)]
              /\ sink'[Other(m)] = sink[Other(m)]
              /\ \A x \in Managers : handle'[x] # 0 => engine'[x].id = handle'[x]
              /\ (handle'[m] # 0 /\ handle'[Other(m)] # 0) =>
                    handle'[m] # handle'[Other(m)]
      ]_vars

\* one manager stopped while the other still holds its running container
C24_Witness ==
    /\ last.m = "m1" /\ last.op = "stop" /\ last.pre # 0 /\ last.exc = "none"
    /\ handle["m1"] = 0
    /\ engine["m1"].status = "absent"
    /\ handle["m2"] # 0
    /\ engine["m2"].id = handle["m2"]
    /\ engine["m2"].status = "running"

AddressOps == {"host_ip", "internal_ip", "gateway_ip"}

\* C23: a manager that holds a started container answers a host-ip query made
\* from outside a container with an address, and a manager that holds none
\* (never started, or stopped) answers no address query with an address.
C23_NoAddressUnlessStarted ==
    [][(last'.op \in AddressOps /\ QueryStep) =>
          /\ (handle[last'.m] # 0 /\ last'.op = "host_ip" /\ ~last'.args.inside) =>
                ~IsRaise(last'.ret)
          /\ handle[last'.m] = 0 => IsRaise(last'.ret)
      ]_vars

(***************************************************************************)
(* Properties of the probe engine.                                         *)
(***************************************************************************)
Succeeded(i) == pHist[i].ok

\* C9: probe_until returns the result of the first invocation of check that
\* does not raise, at once: no invocation follows a success, no time passes
\* between the success and the return, and the value returned is that result.
C9_ReturnsAtFirstSuccess ==
    \A i \in 1..Len(pHist) :
        (pKind = "until" /\ Succeeded(i)) =>
            /\ i = Len(pHist)
            /\ pPc = "returned"
            /\ pResult = [kind |-> "return", v |-> pHist[i].v]
            /\ pClock = pHist[i].t

\* a success that follows two failures and the sleeps between them
C9_Witness ==
    /\ pKind = "until"
    /\ Len(pHist) = 3
    /\ ~Succeeded(1) /\ ~Succeeded(2) /\ Succeeded(3)
    /\ pPc = "returned"

\* C10: when every attempt has failed and the budget is used up, probe_until
\* raises the exception of the last invocation of check, type and message
\* unchanged: not an earlier one, not a timeout error wrapping it.
C10_RaisesLastException ==
    (pKind = "until" /\ pPc = "raised") =>
        /\ Len(pHist) >= 1
        /\ \A i \in 1..Len(pHist) : ~Succeeded(i)
        /\ pResult = [kind |-> "raise", v |-> pHist[Len(pHist)].v]
        /\ pClock > pStopAfter

\* a probe that gave up after several failures, the last one differing from
\* the first
C10_Witness ==
    /\ pKind = "until"
    /\ pPc = "raised"
    /\ Len(pHist) >= 3
    /\ pHist[1].v # pHist[Len(pHist)].v
    /\ pResult.v = pHist[Len(pHist)].v

AllFailed == \A i \in 1..Len(pHist) : ~Succeeded(i)

AllSucceeded == \A i \in 1..Len(pHist) : Succeeded(i)

\* every invocation so far took no longer than the probe interval
ChecksWithinInterval ==
    \A i \in 1..Len(pHist) : pHist[i].t - pHist[i].s <= pInterval

\* C11: probe_until invokes check again only after a failure that came within
\* the budget, one interval after it.  With the budget three intervals long
\* (0.1 and 0.3) and invocations that each take no longer than the interval:
\* after two failures the probe has not raised (it goes on to the third
\* invocation), check is never invoked a fifth time, and a fourth failure is
\* raised.
C11_RetriesWithinBudget ==
    pKind = "until" =>
        /\ \A i \in 2..Len(pHist) :
              /\ ~Succeeded(i - 1)
              /\ pHist[i - 1].t <= pStopAfter
              /\ pHist[i].s = pHist[i - 1].t + pInterval
        /\ (pStopAfter = 3 * pInterval /\ ChecksWithinInterval) =>
              /\ (Len(pHist) = 2 /\ AllFailed) => pPc \in {"sleeping", "ready"}
              /\ Len(pHist) <= 4
              /\ (Len(pHist) = 4 /\ AllFailed) =>
                    (pPc = "raised" /\ pResult = [kind |-> "raise", v |-> pHist[4].v])

\* four failures one interval apart, the budget three intervals long
C11_Witness ==
    /\ pKind = "until"
    /\ pStopAfter = 3 * pInterval
    /\ ChecksWithinInterval
    /\ Len(pHist) = 4
    /\ AllFailed
    /\ pPc = "raised"

\* C12: probe_during_interval raises the exception of the first invocation of
\* check that raises, of whatever type, unchanged and at once: no invocation
\* follows it and no time passes between the failure and the raise.
C12_AbortsAtFirstFailure ==
    \A i \in 1..Len(pHist) :
        (pKind = "during" /\ ~Succeeded(i)) =>
            /\ i = Len(pHist)
            /\ pPc = "raised"
            /\ pResult = [kind |-> "raise", v |-> pHist[i].v]
            /\ pClock = pHist[i].t

\* a failure at the third invocation, raised while the window is still open
C12_Witness ==
    /\ pKind = "during"
    /\ Len(pHist) = 3
    /\ Succeeded(1) /\ Succeeded(2) /\ ~Succeeded(3)
    /\ pHist[3].v = "ValueError: Something went wrong"
    /\ pPc = "raised"
    /\ pClock <= pStopAfter

\* C13: while every invocation succeeds, probe_during_interval goes on
\* invoking check one interval after the previous invocation has completed
\* until the window is over, and only then returns the result of the last
\* invocation; with the window three intervals long (0.1 and 0.3) check is
\* invoked at most four times.
C13_ProbesForWholeWindow ==
    (pKind = "during" /\ AllSucceeded) =>
        /\ \A i \in 2..Len(pHist) :
              /\ pHist[i - 1].t <= pStopAfter
              /\ pHist[i].s = pHist[i - 1].t + pInterval
        /\ pPc = "returned" =>
              /\ Len(pHist) >= 1
              /\ pClock > pStopAfter
              /\ pResult = [kind |-> "return", v |-> pHist[Len(pHist)].v]
        /\ (Len(pHist) >= 1 /\ pHist[Len(pHist)].t <= pStopAfter) =>
              pPc \in {"sleeping", "ready"}
        /\ pStopAfter = 3 * pInterval => Len(pHist) <= 4

\* four successful invocations one interval apart, the window three intervals long
C13_Witness ==
    /\ pKind = "during"
    /\ pStopAfter = 3 * pInterval
    /\ Len(pHist) = 4
    /\ AllSucceeded
    /\ pPc = "returned"

C25_SuspendsBetweenAttempts ==
    /\ pPc = "sleeping" => sched = "idle"
    /\ Len(pHist) = (IF pPc \in {"idle", "ready"} THEN pWaits ELSE pWaits + 1)
    /\ \A i \in 2..Len(pHist) : pHist[i].s = pHist[i - 1].t + pInterval
    /\ served <= pWaits + (IF pPc = "sleeping" THEN 1 ELSE 0)

\* three invocations, and another task that ran during each of the two waits
\* between them
C25_Witness ==
    /\ Len(pHist) = 3
    /\ pWaits = 2
    /\ served = 2

(***************************************************************************)
(* Properties of the image builder.                                        *)
(***************************************************************************)
BuildOps == {"build", "enter"}

\* C17: entering the builder's scope yields the handle of an image that is in
\* the engine, and once the scope is left, whether its body completed or
\* raised, the image that handle names is no longer in the engine.
C17_ScopeBuildsAndRemoves ==
    /\ (iLast.op = "enter" /\ iLast.exc = "none") =>
          (iLast.ret = image /\ iLast.ret \in images)
    /\ iLast.op = "exit" => iLast.pre \notin images

\* C18: build_image() makes one build call, chosen by DOCKER_BUILDKIT alone:
\* the docker build process when it is set ("1"), the engine's own build call
\* when it is unset (or empty).  A build file that mounts a secret fails with
\* BuildError under the second and is built under the first.
C18_StrategyByToggle ==
    iLast.op \in BuildOps =>
        /\ iLast.env = "1" =>
              (iLast.tr[1] = "docker build" /\ "images.build" \notin Range(iLast.tr))
        /\ iLast.env \in {"unset", ""} => iLast.tr = <<"images.build">>
        /\ (NeedsSecretMount(iDockerfile) /\ iLast.env \in {"unset", ""}) =>
              (iLast.exc = "BuildError" /\ image = iLast.pre)
        /\ (NeedsSecretMount(iDockerfile) /\ iLast.env = "1" /\ iTarget = "none") =>
              (iLast.exc = "none" /\ image.df = iDockerfile /\ image \in images)

\* a build file that mounts a secret, built through the docker build process
C18_Witness ==
    /\ iLast.op = "enter"
    /\ iLast.env = "1"
    /\ NeedsSecretMount(iDockerfile)
    /\ iLast.exc = "none"
    /\ image \in images

C20_TargetResolution ==
    (iLast.op \in BuildOps /\ iLast.exc = "none" /\ iDockerfile = "multi") =>
        /\ image.df = "multi"
        /\ iTarget = "none" =>
              image.stage = Stages(iDockerfile)[Len(Stages(iDockerfile))]
        /\ iTarget # "none" => image.stage = iTarget

\* the development stage built through the docker build process, not the last
\* stage
C20_Witness ==
    /\ iLast.op \in BuildOps
    /\ iLast.exc = "none"
    /\ iLast.env = "1"
    /\ iDockerfile = "multi"
    /\ iTarget = "development"
    /\ image.stage = "development"
    /\ image.stage # Stages(iDockerfile)[Len(Stages(iDockerfile))]

(***************************************************************************)
(* Properties of the SNS/SQS test client.                                  *)
(***************************************************************************)
\* C26: every message a call of receive has deleted from the queue is in the
\* list the call returns, also when parsing a later message of the batch
\* raises.
C26_ReceiveLosesNoMessage ==
    sLast.op = "receive" =>
        \A id \in sLast.deleted : \E i \in 1..Len(sLast.ret) : sLast.ret[i] = id

\* C27: create_topic(t) returns the ARN of the topic named t and creates it
\* exactly when no topic of that name exists; subscribe_to(t, queue)
\* subscribes the queue to the topic named t.
C27_TopicByExactName ==
    /\ sLast.op \in {"create_topic", "subscribe_to"} =>
          /\ sLast.arn = TopicArn(sLast.topic)
          /\ sLast.created = (sLast.topic \notin sLast.had)
          /\ sLast.topic \in snsTopics
    /\ sLast.op = "subscribe_to" =>
          <<TopicArn(sLast.topic), QueueArn(QueueName)>> \in snsSubs

====
